---- MODULE Spec2Model ----
(***************************************************************************)
(* A model of the groundhog terrain-slope service:                         *)
(*   src/app/srtm_elevation_and_slope.py  (spiral search, elevation        *)
(*                                         resolver, slope engine)         *)
(*   src/app/groundhog.py                 (Heading, request handling)      *)
(*                                                                         *)
(* Coordinates are integers counted in steps of null_search_size           *)
(* (0.00028 degrees, the cell of the spiral search), a point is            *)
(* <<longitude, latitude>>.  An optional value (an elevation, a bearing, a *)
(* slope) is None, the empty tuple, or Some(v) = <<v>>.  Elevations are    *)
(* integers (metres).  A slope is the exact quotient of Python's true      *)
(* division, kept as a reduced fraction [num, den].  Geodesy is planar:    *)
(* bearings are the eight compass directions and a projection moves a      *)
(* whole number of cells.                                                  *)
(***************************************************************************)
EXTENDS Integers, Sequences, FiniteSets, TLC

VARIABLES
    srtm,      \* srtm_client's data: point -> elevation or None
    op,        \* the function called last, "idle" between calls
    args,      \* its arguments
    ret,       \* what it returned (or the exception it raised)
    lookups    \* the srtm_client.get_elevation calls it made, in order

vars == <<srtm, op, args, ret, lookups>>

\* Python's None, and a value that is not None
None == <<>>
Some(v) == <<v>>

(* ------------------------------ bounds -------------------------------- *)

\* largest iterations / null_search_giveup argument tried
MaxIterations == 12
\* null_search_giveup used by the slope engine (the default, 1000, scaled down)
DefaultGiveup == 3
\* longest coordinate list or JSON payload
MaxRoute == 3

(* --------------------------- the SRTM data ---------------------------- *)

\* the points at which the data set may hold a value; every other point is void
DataPoints == {<<0, 0>>, <<1, 0>>, <<10, 0>>, <<8, 0>>, <<-8, 0>>, <<16, 0>>}

\* the terrain: 100 m at the origin, rising 10 m per 8 cells eastwards and
\* 20 m per 8 cells northwards
Terrain(p) == 100 + ((5 * p[1]) \div 4) + ((5 * p[2]) \div 2)

\* srtm_client.get_elevation(lat, lon): the value stored, None where void
get_elevation(data, lat, lon) ==
    IF <<lon, lat>> \in DOMAIN data THEN data[<<lon, lat>>] ELSE None

(* ----------------------------- get_spiral ----------------------------- *)

\* the clip of get_spiral: -iterations/2 < v <= iterations/2 on both axes
InSquareStrict(iterations, x, y) ==
    /\ -iterations < 2 * x /\ 2 * x < iterations
    /\ -iterations < 2 * y /\ 2 * y < iterations

InSquare(iterations, x, y) ==
    /\ -iterations < 2 * x /\ 2 * x <= iterations
    /\ -iterations < 2 * y /\ 2 * y <= iterations

\* the turn condition of the walk
TurnClosedRing(x, y) == x = y \/ (x < 0 /\ x = -y) \/ (x > 0 /\ x = -y)

Turn(x, y) == x = y \/ (x < 0 /\ x = -y) \/ (x > 0 /\ x = 1 - y)

\* the for loop of get_spiral, from its i-th pass on
RECURSIVE spiral_loop(_, _, _, _, _, _, _)
spiral_loop(iterations, i, x, y, dx, dy, spiral_list) ==
    IF i >= iterations THEN spiral_list
    ELSE LET lst == IF InSquare(iterations, x, y)
                    THEN Append(spiral_list, <<x, y>>) ELSE spiral_list
             ndx == IF Turn(x, y) THEN -dy ELSE dx
             ndy == IF Turn(x, y) THEN dx ELSE dy
         IN  spiral_loop(iterations, i + 1, x + ndx, y + ndy, ndx, ndy, lst)

get_spiral(iterations) == spiral_loop(iterations, 0, 0, 0, 0, -1, <<>>)

(* ------------------------- get_elevation_safe ------------------------- *)

\* the scale factors of the spiral search, in the order tried
SearchFactors == <<1, 10, 50, 100, 200, 500>>

\* search_list: the spiral scaled by search_factor around (lon, lat)
search_list(lon, lat, spiral, search_factor) ==
    [i \in 1..Len(spiral) |->
        <<lon + spiral[i][1] * search_factor, lat + spiral[i][2] * search_factor>>]

\* the inner loop: look the search points up in order, stop at the first value
RECURSIVE scan_points(_, _, _, _)
scan_points(data, points, i, log) ==
    IF i > Len(points) THEN [elevation |-> None, log |-> log]
    ELSE LET e == get_elevation(data, points[i][2], points[i][1])
         IN  IF e # None
             THEN [elevation |-> e, log |-> Append(log, points[i])]
             ELSE scan_points(data, points, i + 1, Append(log, points[i]))

\* the outer loop after the search r with factor k: without the break every
\* factor is searched and the last search decides
RECURSIVE scan_factors_no_break(_, _, _, _, _, _)
after_search_no_break(data, lon, lat, spiral, k, r) ==
    IF r.elevation # None /\ k = Len(SearchFactors) THEN r
    ELSE scan_factors_no_break(data, lon, lat, spiral, k + 1, r.log)

scan_factors_no_break(data, lon, lat, spiral, k, log) ==
    IF k > Len(SearchFactors) THEN [elevation |-> None, log |-> log]
    ELSE after_search_no_break(data, lon, lat, spiral, k,
             scan_points(data, search_list(lon, lat, spiral, SearchFactors[k]), 1, log))

\* the outer loop: one search per factor, stop after the first that finds a value
RECURSIVE scan_factors(_, _, _, _, _, _)
after_search(data, lon, lat, spiral, k, r) ==
    IF r.elevation # None THEN r
    ELSE scan_factors(data, lon, lat, spiral, k + 1, r.log)

scan_factors(data, lon, lat, spiral, k, log) ==
    IF k > Len(SearchFactors) THEN [elevation |-> None, log |-> log]
    ELSE after_search(data, lon, lat, spiral, k,
             scan_points(data, search_list(lon, lat, spiral, SearchFactors[k]), 1, log))

\* lines 177-190: the spiral search at growing scales, after the direct lookup
spiral_search_no_break(data, lon, lat, spiral, log) ==
    scan_factors_no_break(data, lon, lat, spiral, 1, log)

spiral_search(data, lon, lat, spiral, log) ==
    scan_factors(data, lon, lat, spiral, 1, log)

get_elevation_safe_spiral_plus_one(data, lon, lat, null_search_giveup) ==
    LET elevation == get_elevation(data, lat, lon)
    IN  IF elevation # None
        THEN [elevation |-> elevation, log |-> << <<lon, lat>> >>]
        ELSE spiral_search(data, lon, lat, get_spiral(null_search_giveup + 1),
                           << <<lon, lat>> >>)

get_elevation_safe(data, lon, lat, null_search_giveup) ==
    LET elevation == get_elevation(data, lat, lon)
    IN  IF elevation # None
        THEN [elevation |-> elevation, log |-> << <<lon, lat>> >>]
        ELSE spiral_search(data, lon, lat, get_spiral(null_search_giveup),
                           << <<lon, lat>> >>)

(* ------------------------------ geodesy ------------------------------- *)

\* metres per cell: roe (line 95) times null_search_size in radians, about 31.17
MetersPerCell == 31

\* 1000 * sin and 1000 * cos of a compass bearing, for the eight directions
Sin1000(b) ==
    CASE b \in {0, 180} -> 0
      [] b = 90 -> 1000
      [] b = 270 -> -1000
      [] b \in {45, 135} -> 707
      [] b \in {225, 315} -> -707

Cos1000(b) ==
    CASE b \in {90, 270} -> 0
      [] b = 0 -> 1000
      [] b = 180 -> -1000
      [] b \in {45, 315} -> 707
      [] b \in {135, 225} -> -707

\* n / d rounded to the nearest integer, d > 0
Round(n, d) ==
    IF n >= 0 THEN (2 * n + d) \div (2 * d) ELSE -((2 * (-n) + d) \div (2 * d))

\* bearing(lon1, lat1, lon2, lat2): the initial compass bearing from point 1 to
\* point 2, in [0, 360); atan2(0, 0) = 0 for equal points
bearing(lon1, lat1, lon2, lat2) ==
    LET e == lon2 - lon1
        n == lat2 - lat1
    IN  CASE e = 0 /\ n >= 0 -> 0
          [] e > 0 /\ n > 0 -> 45
          [] e > 0 /\ n = 0 -> 90
          [] e > 0 /\ n < 0 -> 135
          [] e = 0 /\ n < 0 -> 180
          [] e < 0 /\ n < 0 -> 225
          [] e < 0 /\ n = 0 -> 270
          [] e < 0 /\ n > 0 -> 315

\* lon_lat_from_distance_bearing: the point reached from (lon, lat) after
\* distance metres (negative: backwards) along bearing
lon_lat_from_distance_bearing(lon, lat, distance, b) ==
    <<lon + Round(distance * Sin1000(b), 1000 * MetersPerCell),
      lat + Round(distance * Cos1000(b), 1000 * MetersPerCell)>>

(* ---------------------------- slope engine ---------------------------- *)

DEFAULT_STRIDE == 250

NoExc == "none"

RECURSIVE GCD(_, _)
GCD(a, b) == IF b = 0 THEN a ELSE GCD(b, a % b)

Abs(n) == IF n < 0 THEN -n ELSE n

\* Python's n / d for d # 0, as a reduced fraction with a positive denominator
TrueDiv(n, d) ==
    LET g == GCD(Abs(n), Abs(d))
        s == IF d < 0 THEN -1 ELSE 1
    IN  [num |-> (s * n) \div g, den |-> (s * d) \div g]

\* the divisor of the slope
slope_divisor_baseline(stride_length) == 2 * stride_length

slope_divisor(stride_length) == stride_length

\* what slope_from_coord_bearing returns when an elevation is missing
missing_result_partial(elevation_origin) == <<elevation_origin, None>>

missing_result(elevation_origin) == <<None, None>>

\* lines 221-231 of slope_from_coord_bearing: the result from the three
\* elevations (the two probes with the lookups they took)
slope_result(elevation_origin, elevation_ahead, elevation_behind, stride_length, log0) ==
    IF \/ elevation_origin = None
       \/ elevation_ahead.elevation = None
       \/ elevation_behind.elevation = None
    THEN [elevation |-> missing_result(elevation_origin)[1],
          slope |-> missing_result(elevation_origin)[2],
          log |-> log0 \o elevation_ahead.log \o elevation_behind.log,
          exc |-> NoExc]
    ELSE IF slope_divisor(stride_length) = 0
    THEN [elevation |-> None, slope |-> None,
          log |-> log0 \o elevation_ahead.log \o elevation_behind.log,
          exc |-> "ZeroDivisionError"]
    ELSE [elevation |-> elevation_origin,
          slope |-> Some(TrueDiv(elevation_ahead.elevation[1] - elevation_behind.elevation[1],
                                 slope_divisor(stride_length))),
          log |-> log0 \o elevation_ahead.log \o elevation_behind.log,
          exc |-> NoExc]

\* get_elevation_safe with its default arguments, at a point
elevation_safe_at(data, point) == get_elevation_safe(data, point[1], point[2], DefaultGiveup)

\* slope_from_coord_bearing: (elevation, slope) at the origin, the lookups made
\* and the exception raised, if any
slope_from_coord_bearing(data, longitude_origin, latitude_origin, bearing_origin, stride_length) ==
    IF bearing_origin = None
    THEN [elevation |-> get_elevation(data, latitude_origin, longitude_origin),
          slope |-> None,
          log |-> << <<longitude_origin, latitude_origin>> >>,
          exc |-> NoExc]
    ELSE slope_result(
             get_elevation(data, latitude_origin, longitude_origin),
             elevation_safe_at(data,
                 lon_lat_from_distance_bearing(longitude_origin, latitude_origin,
                                               stride_length, bearing_origin[1])),
             elevation_safe_at(data,
                 lon_lat_from_distance_bearing(longitude_origin, latitude_origin,
                                               (-1) * stride_length, bearing_origin[1])),
             stride_length,
             << <<longitude_origin, latitude_origin>> >>)

\* the elevation slope_from_coords_only appends for the last coordinate
last_elevation_direct(data, lon, lat) ==
    [elevation |-> get_elevation(data, lat, lon), log |-> << <<lon, lat>> >>]

last_elevation(data, lon, lat) == get_elevation_safe(data, lon, lat, DefaultGiveup)

\* the three appends of a loop pass: the result r and the bearing b join the lists
append_result(acc, r, b) ==
    [elevation_list |-> Append(acc.elevation_list, r.elevation),
     slope_list |-> Append(acc.slope_list, r.slope),
     bearing_list |-> Append(acc.bearing_list, b),
     log |-> acc.log \o r.log,
     exc |-> r.exc]

EmptyLists ==
    [elevation_list |-> <<>>, slope_list |-> <<>>, bearing_list |-> <<>>,
     log |-> <<>>, exc |-> NoExc]

\* one pass of the loop of slope_from_coords_only, for coord and next_coord
route_pass(data, coord, next_coord, stride_length, acc) ==
    append_result(acc,
        slope_from_coord_bearing(data, coord[1], coord[2],
            Some(bearing(coord[1], coord[2], next_coord[1], next_coord[2])), stride_length),
        Some(bearing(coord[1], coord[2], next_coord[1], next_coord[2])))

\* the for loop of slope_from_coords_only over coord_list[:-1], from index i on
\* (1-based); acc holds the three lists, the lookups and the exception so far
RECURSIVE route_loop(_, _, _, _, _)
route_loop(data, coord_list, stride_length, i, acc) ==
    IF i >= Len(coord_list) \/ acc.exc # NoExc THEN acc
    ELSE route_loop(data, coord_list, stride_length, i + 1,
                    route_pass(data, coord_list[i], coord_list[i + 1], stride_length, acc))

\* lines 255-258 of slope_from_coords_only: the entry of the last coordinate
route_last(acc, e) ==
    [elevation_list |-> Append(acc.elevation_list, e.elevation),
     slope_list |-> Append(acc.slope_list, None),
     bearing_list |-> Append(acc.bearing_list, None),
     log |-> acc.log \o e.log,
     exc |-> NoExc]

route_finish(data, coord_list, acc) ==
    IF acc.exc # NoExc THEN acc
    ELSE IF Len(coord_list) = 0 THEN [acc EXCEPT !.exc = "IndexError"]
    ELSE route_last(acc, last_elevation(data, coord_list[Len(coord_list)][1],
                                        coord_list[Len(coord_list)][2]))

\* slope_from_coords_only: the elevation, slope and bearing lists of a route
slope_from_coords_only(data, coord_list, stride_length) ==
    route_finish(data, coord_list, route_loop(data, coord_list, stride_length, 1, EmptyLists))

(* --------------------------- request layer ---------------------------- *)

\* 180 degrees of longitude, in cells (180 / 0.00028, rounded down)
Deg180 == 642857

\* Heading.__init__ with a longitude wrapped into (-180, 180] from either side
Heading_wrapped(latitude, longitude, b, stride, unique_key) ==
    [latitude |-> latitude,
     longitude |-> ((longitude + Deg180 - 1) % (2 * Deg180)) - Deg180 + 1,
     bearing |-> b,
     stride |-> stride,
     unique_key |-> unique_key]

\* Heading.__init__: a longitude above 180 degrees is reduced by 360 degrees, once
Heading(latitude, longitude, b, stride, unique_key) ==
    [latitude |-> latitude,
     longitude |-> IF longitude > Deg180 THEN longitude - 2 * Deg180 ELSE longitude,
     bearing |-> b,
     stride |-> stride,
     unique_key |-> unique_key]

\* json_to_headings, one record: the Heading, or the exception raised.  A key the
\* record lacks reads as None (dict.get); float() of a number is that number.
json_to_heading(coord) ==
    LET direct == coord.latitude # None /\ coord.longitude # None
        geo_point == coord.geo_point
    IN  IF ~direct /\ geo_point = None
        THEN [exc |-> "AttributeError"]
        ELSE
        LET latitude == IF direct THEN coord.latitude ELSE geo_point[1].lat
            longitude == IF direct THEN coord.longitude ELSE geo_point[1].lon
        IN  IF latitude = None \/ longitude = None
            THEN [exc |-> "KeyError"]
            ELSE [exc |-> NoExc,
                  heading |-> Heading(latitude[1], longitude[1], coord.bearing,
                                      IF coord.stride # None THEN coord.stride[1]
                                      ELSE DEFAULT_STRIDE,
                                      coord.unique_key)]

\* json_to_headings: the list of Headings of a JSON payload
RECURSIVE json_to_headings_loop(_, _, _)
json_to_headings_next(json_coords, i, coords, h) ==
    IF h.exc # NoExc THEN [exc |-> h.exc, headings |-> None]
    ELSE json_to_headings_loop(json_coords, i + 1, Append(coords, h.heading))

json_to_headings_loop(json_coords, i, coords) ==
    IF i > Len(json_coords) THEN [exc |-> NoExc, headings |-> Some(coords)]
    ELSE json_to_headings_next(json_coords, i, coords, json_to_heading(json_coords[i]))

json_to_headings(json_coords) == json_to_headings_loop(json_coords, 1, <<>>)

\* rest_to_heading: None without a latitude or a longitude, else a list of one
\* Heading
rest_to_heading(params) ==
    IF params.latitude = None \/ params.longitude = None
    THEN [exc |-> NoExc, headings |-> None]
    ELSE [exc |-> NoExc,
          headings |-> Some(<<Heading(params.latitude[1], params.longitude[1],
                                      params.bearing,
                                      IF params.stride # None THEN params.stride[1]
                                      ELSE DEFAULT_STRIDE,
                                      None)>>)]

from_heading(data, heading) ==
    slope_from_coord_bearing(data, heading.longitude, heading.latitude,
                             heading.bearing, heading.stride)

\* the loop of from_heading_list over headings that carry bearings; no
\* bearing_list is built
explicit_pass(acc, r) ==
    [elevation_list |-> Append(acc.elevation_list, r.elevation),
     slope_list |-> Append(acc.slope_list, r.slope),
     bearing_list |-> None,
     log |-> acc.log \o r.log,
     exc |-> r.exc]

RECURSIVE explicit_loop(_, _, _, _)
explicit_loop(data, heading_list, i, acc) ==
    IF i > Len(heading_list) \/ acc.exc # NoExc THEN acc
    ELSE explicit_loop(data, heading_list, i + 1,
                       explicit_pass(acc, from_heading(data, heading_list[i])))

\* whether from_heading_list takes the bearings as given
bearings_given_any(heading_list) ==
    \E i \in 1..Len(heading_list) : heading_list[i].bearing # None

bearings_given(heading_list) == heading_list[1].bearing # None

\* the route's lists as from_heading_list hands them on: bearing_list is a list
route_lists(r) == [r EXCEPT !.bearing_list = Some(r.bearing_list)]

\* from_heading_list (of a non-empty list): the given bearings if the first
\* heading has one, else the route through the coordinates with the first
\* heading's stride.  bearing_list is None, or Some(list) for a route.
from_heading_list(data, heading_list) ==
    IF bearings_given(heading_list)
    THEN explicit_loop(data, heading_list, 1, [EmptyLists EXCEPT !.bearing_list = None])
    ELSE route_lists(slope_from_coords_only(data,
             [i \in 1..Len(heading_list) |->
                 <<heading_list[i].longitude, heading_list[i].latitude>>],
             heading_list[1].stride))

\* Heading.to_dict reporting the default stride for every heading
response_part_default_stride(heading, elevation, slope, b) ==
    [latitude |-> heading.latitude, longitude |-> heading.longitude,
     bearing |-> b, stride |-> DEFAULT_STRIDE, unique_key |-> heading.unique_key,
     elevation |-> elevation, slope |-> slope]

\* Heading.to_dict with the elevation and the slope added
response_part(heading, elevation, slope, b) ==
    [latitude |-> heading.latitude, longitude |-> heading.longitude,
     bearing |-> b, stride |-> heading.stride, unique_key |-> heading.unique_key,
     elevation |-> elevation, slope |-> slope]

\* the loop of groundhog_request over a list of several headings
RECURSIVE response_loop(_, _, _, _)
response_loop(headings, lists, i, response_list) ==
    IF i > Len(headings) THEN [exc |-> NoExc, response |-> Some(response_list)]
    ELSE IF headings[i].bearing = None /\ lists.bearing_list = None
         THEN [exc |-> "TypeError", response |-> None]
         ELSE LET b == IF headings[i].bearing = None
                       THEN lists.bearing_list[1][i] ELSE headings[i].bearing
              IN  response_loop(headings, lists, i + 1,
                                Append(response_list,
                                       response_part(headings[i], lists.elevation_list[i],
                                                     lists.slope_list[i], b)))

\* lines 286-290: a single heading
single_response(heading, r) ==
    IF r.exc # NoExc
    THEN [exc |-> r.exc, response |-> None, log |-> r.log]
    ELSE [exc |-> NoExc,
          response |-> Some(<<response_part(heading, r.elevation, r.slope, heading.bearing)>>),
          log |-> r.log]

\* lines 295-302: several headings
with_log(out, log) == [exc |-> out.exc, response |-> out.response, log |-> log]

list_response(headings, lists) ==
    IF lists.exc # NoExc
    THEN [exc |-> lists.exc, response |-> None, log |-> lists.log]
    ELSE with_log(response_loop(headings, lists, 1, <<>>), lists.log)

\* lines 281-303: the response for the headings
respond(data, headings) ==
    IF Len(headings) = 0            \* headings[0]
    THEN [exc |-> "IndexError", response |-> None, log |-> <<>>]
    ELSE IF Len(headings) = 1
    THEN single_response(headings[1], from_heading(data, headings[1]))
    ELSE list_response(headings, from_heading_list(data, headings))

after_parse(data, parsed) ==
    IF parsed.exc # NoExc
    THEN [exc |-> parsed.exc, response |-> None, log |-> <<>>]
    ELSE IF parsed.headings = None      \* len(None)
    THEN [exc |-> "TypeError", response |-> None, log |-> <<>>]
    ELSE respond(data, parsed.headings[1])

\* groundhog_request: the response list of a POST of json_payload or a GET with
\* params, the lookups made and the exception raised, if any
groundhog_request(data, method, json_payload, params) ==
    after_parse(data, IF method = "POST" THEN json_to_headings(json_payload)
                      ELSE rest_to_heading(params))

\* make_json_response, one record: latitude and longitude move into geo_point
json_record(result) ==
    [geo_point |-> [lat |-> result.latitude, lon |-> result.longitude],
     bearing |-> result.bearing, stride |-> result.stride,
     unique_key |-> result.unique_key,
     elevation |-> result.elevation, slope |-> result.slope]

make_json_response(data_list) ==
    IF data_list = None THEN <<>>
    ELSE [i \in 1..Len(data_list[1]) |-> json_record(data_list[1][i])]

\* the /groundhog endpoint: groundhog_request, then make_json_response; an
\* exception leaves no response body
endpoint_response(r) ==
    [exc |-> r.exc,
     body |-> IF r.exc # NoExc THEN None ELSE Some(make_json_response(r.response)),
     log |-> r.log]

groundhog(data, method, json_payload, params) ==
    endpoint_response(groundhog_request(data, method, json_payload, params))

(* ------------------------------ actions ------------------------------- *)

\* the coordinates callers ask about
Coords == {<<0, 0>>, <<8, 0>>}

\* the data set with the points of void empty
DataWithVoid(void) ==
    [p \in DataPoints |-> IF p \in void THEN None ELSE Some(Terrain(p))]

\* the engine is tried on every data set, the service on the data sets with at
\* most one void and on the one whose origin and first spiral neighbour are void
ServiceVoids ==
    {{}} \cup {{p} : p \in DataPoints} \cup {{<<0, 0>>, <<1, 0>>}}

Init ==
    /\ srtm \in {DataWithVoid(void) : void \in SUBSET DataPoints}
    /\ op = "idle"
    /\ args = <<>>
    /\ ret = None
    /\ lookups = <<>>

\* the call of name with arguments a has returned value after the lookups log
Returned(name, a, value, log) ==
    /\ op' = name
    /\ args' = a
    /\ ret' = value
    /\ lookups' = log
    /\ UNCHANGED srtm

CallGetSpiral ==
    /\ op = "idle"
    /\ \E iterations \in 1..MaxIterations :
        Returned("get_spiral", [iterations |-> iterations], get_spiral(iterations), <<>>)

ElevationReturned(a, r) == Returned("get_elevation_safe", a, r.elevation, r.log)

CallGetElevationSafe ==
    /\ op = "idle"
    /\ \E c \in Coords, giveup \in 1..MaxIterations :
        ElevationReturned([lon |-> c[1], lat |-> c[2], null_search_giveup |-> giveup],
                          get_elevation_safe(srtm, c[1], c[2], giveup))

\* the strides and the explicit bearings callers pass
Strides == {DEFAULT_STRIDE, 2 * DEFAULT_STRIDE}
Bearings == {None, Some(0), Some(90)}

\* the sequences over S of length lo..hi
SeqsOf(S, lo, hi) == UNION {[1..n -> S] : n \in lo..hi}

SlopeReturned(a, r) ==
    Returned("slope_from_coord_bearing", a,
             [elevation |-> r.elevation, slope |-> r.slope, exc |-> r.exc], r.log)

CallSlopeFromCoordBearing ==
    /\ op = "idle"
    /\ \E c \in Coords, b \in Bearings, stride \in Strides :
        SlopeReturned([lon |-> c[1], lat |-> c[2], bearing |-> b, stride |-> stride],
                      slope_from_coord_bearing(srtm, c[1], c[2], b, stride))

RouteReturned(a, r) ==
    Returned("slope_from_coords_only", a,
             [elevation_list |-> r.elevation_list, slope_list |-> r.slope_list,
              bearing_list |-> r.bearing_list, exc |-> r.exc], r.log)

CallSlopeFromCoordsOnly ==
    /\ op = "idle"
    /\ \E coord_list \in SeqsOf(Coords, 1, MaxRoute), stride \in Strides :
        RouteReturned([coord_list |-> coord_list, stride |-> stride],
                      slope_from_coords_only(srtm, coord_list, stride))

\* the caller has its result; the next call may come
Return ==
    /\ op # "idle"
    /\ op' = "idle"
    /\ args' = <<>>
    /\ ret' = None
    /\ lookups' = <<>>
    /\ UNCHANGED srtm

\* the JSON records a payload is made of: position i of a payload, at coordinate
\* c, with or without a bearing and a stride, in one of the two formats
JsonRecord(i, c, b, stride, use_geo_point, keyed) ==
    [latitude |-> IF use_geo_point THEN None ELSE Some(c[2]),
     longitude |-> IF use_geo_point THEN None ELSE Some(c[1]),
     geo_point |-> IF use_geo_point THEN Some([lat |-> Some(c[2]), lon |-> Some(c[1])])
                   ELSE None,
     bearing |-> b,
     stride |-> stride,
     unique_key |-> IF keyed THEN Some(i) ELSE None]

JsonBearings == {None, Some(90)}
JsonStrides == {None, Some(2 * DEFAULT_STRIDE)}

\* the payload of the items: one record per item
JsonPayload(items, use_geo_point) ==
    [i \in 1..Len(items) |->
        JsonRecord(i, items[i][1], items[i][2], items[i][3], use_geo_point, ~use_geo_point)]

GroundhogReturned(a, r) ==
    Returned("groundhog", a, [exc |-> r.exc, body |-> r.body], r.log)

Post(json_payload) ==
    GroundhogReturned([method |-> "POST", json_payload |-> json_payload, params |-> None],
                      groundhog(srtm, "POST", json_payload, None))

\* POST /groundhog with a JSON list
PostGroundhog ==
    /\ op = "idle"
    /\ \E use_geo_point \in BOOLEAN,
          items \in SeqsOf(Coords \X JsonBearings \X JsonStrides, 0, MaxRoute) :
        Post(JsonPayload(items, use_geo_point))

\* coordinates beyond 180 degrees east and beyond 180 degrees west
FarCoords == {<<Deg180 + 8, 0>>, <<-Deg180 - 8, 0>>}

\* POST /groundhog with one record from the far side of the date line
PostGroundhogFar ==
    /\ op = "idle"
    /\ \E use_geo_point \in BOOLEAN, c \in FarCoords,
          b \in JsonBearings, stride \in JsonStrides :
        Post(JsonPayload(<< <<c, b, stride>> >>, use_geo_point))

Get(params) ==
    GroundhogReturned([method |-> "GET", json_payload |-> <<>>, params |-> params],
                      groundhog(srtm, "GET", <<>>, params))

\* GET /groundhog with query parameters
GetGroundhog ==
    /\ op = "idle"
    /\ \E latitude \in {None} \cup {Some(c[2]) : c \in Coords},
          longitude \in {None} \cup {Some(c[1]) : c \in Coords},
          b \in JsonBearings, stride \in JsonStrides :
        Get([latitude |-> latitude, longitude |-> longitude,
             bearing |-> b, stride |-> stride])

Next ==
    \/ Return
    \/ CallGetSpiral
    \/ CallGetElevationSafe
    \/ CallSlopeFromCoordBearing
    \/ CallSlopeFromCoordsOnly

\* the engine, called directly
Spec == Init /\ [][Next]_vars

InitService ==
    /\ srtm \in {DataWithVoid(void) : void \in ServiceVoids}
    /\ op = "idle"
    /\ args = <<>>
    /\ ret = None
    /\ lookups = <<>>

NextService ==
    \/ Return
    \/ PostGroundhog
    \/ PostGroundhogFar
    \/ GetGroundhog

\* the service, called over HTTP
SpecService == InitService /\ [][NextService]_vars

(* ------------------------- the spiral: C6, C7 ------------------------- *)

\* the lattice points of the bounding square -n/2 < x <= n/2, -n/2 < y <= n/2
Square(n) ==
    {<<x, y>> \in ((-n)..n) \X ((-n)..n) :
        -n < 2 * x /\ 2 * x <= n /\ -n < 2 * y /\ 2 * y <= n}

PointsOf(s) == {s[i] : i \in 1..Len(s)}

Distinct(s) == \A i, j \in 1..Len(s) : i # j => s[i] # s[j]

\* C6 as stated: get_spiral(n) starts with (0,0) and its points are exactly the
\* lattice points of the bounding square, each once.
C6_SpiralFillsSquare ==
    op = "get_spiral" =>
        /\ ret[1] = <<0, 0>>
        /\ Distinct(ret)
        /\ PointsOf(ret) = Square(args.iterations)

\* C6 as amended: get_spiral(n) starts with (0,0) and produces n pairwise distinct
\* lattice points, all of them inside the bounding square, which holds n * n
\* points: the spiral fills the square only for n = 1.
C6_SpiralInsideSquare ==
    op = "get_spiral" =>
        /\ ret[1] = <<0, 0>>
        /\ Distinct(ret)
        /\ PointsOf(ret) \subseteq Square(args.iterations)
        /\ Cardinality(PointsOf(ret)) = args.iterations
        /\ Cardinality(Square(args.iterations)) = args.iterations * args.iterations
        /\ (PointsOf(ret) = Square(args.iterations)) <=> (args.iterations = 1)

\* a spiral that leaves most of its bounding square empty
C6_Witness ==
    /\ op = "get_spiral"
    /\ args.iterations >= 9
    /\ <<2, 2>> \in Square(args.iterations) \ PointsOf(ret)
    /\ <<1, -1>> \in PointsOf(ret)

Ring(p) == IF Abs(p[1]) >= Abs(p[2]) THEN Abs(p[1]) ELSE Abs(p[2])

StepOf(s, i) == <<s[i + 1][1] - s[i][1], s[i + 1][2] - s[i][2]>>

\* C7: get_spiral(iterations) returns exactly iterations pairwise distinct points
\* (the clip removes none) that walk the square spiral outwards from (0,0): unit
\* steps, the first to the right, every change of direction a quarter turn
\* right -> up -> left -> down -> right, never back to an inner ring.
C7_SpiralFullLength ==
    op = "get_spiral" =>
        LET n == args.iterations
        IN  /\ Len(ret) = n
            /\ Distinct(ret)
            /\ ret[1] = <<0, 0>>
            /\ n >= 2 => StepOf(ret, 1) = <<1, 0>>
            /\ \A i \in 1..(n - 1) :
                /\ StepOf(ret, i) \in {<<1, 0>>, <<0, 1>>, <<-1, 0>>, <<0, -1>>}
                /\ Ring(ret[i]) <= Ring(ret[i + 1])
            /\ \A i \in 1..(n - 2) :
                \/ StepOf(ret, i + 1) = StepOf(ret, i)
                \/ StepOf(ret, i + 1) = <<-StepOf(ret, i)[2], StepOf(ret, i)[1]>>

\* a spiral that has gone round the first ring and entered the second
C7_Witness ==
    /\ op = "get_spiral"
    /\ Len(ret) >= 10
    /\ ret[9] = <<1, -1>>
    /\ ret[10] = <<2, -1>>

(* ------------------------ the resolver: C4, C5 ------------------------ *)

\* the points get_elevation_safe may look up, in the order the claim fixes: the
\* coordinate itself, then for each scale factor every spiral offset
LookupOrder(lon, lat, giveup) ==
    LET spiral == get_spiral(giveup)
        L == Len(spiral)
    IN  [j \in 1..(1 + Len(SearchFactors) * L) |->
            IF j = 1 THEN <<lon, lat>>
            ELSE LET k == ((j - 2) \div L) + 1
                     i == ((j - 2) % L) + 1
                 IN  <<lon + spiral[i][1] * SearchFactors[k],
                       lat + spiral[i][2] * SearchFactors[k]>>]

Present(p) == get_elevation(srtm, p[2], p[1]) # None

\* C4: get_elevation_safe returns the value of the first present lookup in the
\* fixed order and looks nothing up after it; it returns None exactly when every
\* lookup in that order is absent.
C4_FirstPresentInOrder ==
    op = "get_elevation_safe" =>
        LET order == LookupOrder(args.lon, args.lat, args.null_search_giveup)
            hits == {j \in 1..Len(order) : Present(order[j])}
        IN  IF hits = {}
            THEN ret = None /\ lookups = order
            ELSE LET first == CHOOSE j \in hits : \A h \in hits : j <= h
                 IN  /\ ret = get_elevation(srtm, order[first][2], order[first][1])
                     /\ ret # None
                     /\ lookups = SubSeq(order, 1, first)

\* a value found at the second scale factor, after the whole first spiral failed
C4_Witness ==
    /\ op = "get_elevation_safe"
    /\ ret # None
    /\ args.null_search_giveup >= 2
    /\ Len(lookups) = 1 + args.null_search_giveup + 2
    /\ lookups[Len(lookups)] = <<args.lon + 10, args.lat>>

\* C5 as stated: one call issues at most 6 * null_search_giveup lookups.
C5_AtMostSixTimesGiveup ==
    op = "get_elevation_safe" => Len(lookups) <= 6 * args.null_search_giveup

\* C5 as amended: one call issues at most 6 * null_search_giveup + 1 lookups, the
\* direct lookup and then at most null_search_giveup for each of the 6 factors.
C5_AtMostSixTimesGiveupPlusOne ==
    op = "get_elevation_safe" =>
        /\ Len(lookups) <= 6 * args.null_search_giveup + 1
        /\ Len(lookups) >= 1

\* the worst case: nothing found anywhere
C5_Witness ==
    /\ op = "get_elevation_safe"
    /\ ret = None
    /\ Len(lookups) = 6 * args.null_search_giveup + 1
    /\ \A j \in 1..Len(lookups) : ~Present(lookups[j])

(* -------------------- the slope engine: C1, C2, C3, C9 ---------------- *)

\* the three elevations of a call of slope_from_coord_bearing with a bearing
OriginDirect == get_elevation(srtm, args.lat, args.lon)

AheadPoint == lon_lat_from_distance_bearing(args.lon, args.lat, args.stride, args.bearing[1])

BehindPoint == lon_lat_from_distance_bearing(args.lon, args.lat, -args.stride, args.bearing[1])

AheadElevation == get_elevation_safe(srtm, AheadPoint[1], AheadPoint[2], DefaultGiveup).elevation

BehindElevation == get_elevation_safe(srtm, BehindPoint[1], BehindPoint[2], DefaultGiveup).elevation

\* C1: for N >= 1 coordinates slope_from_coords_only returns three lists of N
\* entries in input order (entry i carries the bearing from coordinate i to i+1 and
\* an elevation of coordinate i), and its last entry is the elevation of the last
\* coordinate resolved with the fallback search, slope None, bearing None.
C1_RouteShape ==
    op = "slope_from_coords_only" =>
        LET cl == args.coord_list
            n == Len(cl)
        IN  /\ ret.exc = NoExc
            /\ Len(ret.elevation_list) = n
            /\ Len(ret.slope_list) = n
            /\ Len(ret.bearing_list) = n
            /\ \A i \in 1..(n - 1) :
                /\ ret.bearing_list[i] = Some(bearing(cl[i][1], cl[i][2], cl[i + 1][1], cl[i + 1][2]))
                /\ ret.elevation_list[i] \in {None, get_elevation(srtm, cl[i][2], cl[i][1])}
            /\ ret.elevation_list[n] =
                   get_elevation_safe(srtm, cl[n][1], cl[n][2], DefaultGiveup).elevation
            /\ ret.slope_list[n] = None
            /\ ret.bearing_list[n] = None

\* a route of three whose last coordinate has no data of its own and gets its
\* elevation from a spiral neighbour
C1_Witness ==
    /\ op = "slope_from_coords_only"
    /\ Len(args.coord_list) = 3
    /\ Len(ret.elevation_list) = 3
    /\ ~Present(args.coord_list[3])
    /\ ret.elevation_list[3] # None
    /\ ret.slope_list[1] # None

\* C2: with a bearing, slope_from_coord_bearing returns (None, None) and raises
\* nothing whenever the origin, the ahead or the behind elevation is absent; in a
\* route every entry but the last is what slope_from_coord_bearing returns for
\* that coordinate alone, whatever is missing at the others.
C2_FailSoft ==
    /\ (op = "slope_from_coord_bearing" /\ args.bearing # None
        /\ (OriginDirect = None \/ AheadElevation = None \/ BehindElevation = None))
       => (ret.exc = NoExc /\ ret.elevation = None /\ ret.slope = None)
    /\ op = "slope_from_coords_only" =>
        LET cl == args.coord_list
        IN  /\ ret.exc = NoExc
            /\ \A i \in 1..(Len(cl) - 1) :
                LET alone == slope_from_coord_bearing(srtm, cl[i][1], cl[i][2],
                                 Some(bearing(cl[i][1], cl[i][2], cl[i + 1][1], cl[i + 1][2])),
                                 args.stride)
                IN  /\ ret.elevation_list[i] = alone.elevation
                    /\ ret.slope_list[i] = alone.slope

\* the origin has an elevation, a probe point has none: nothing partial comes back
C2_Witness ==
    /\ op = "slope_from_coord_bearing"
    /\ args.bearing # None
    /\ OriginDirect # None
    /\ BehindElevation # None
    /\ AheadElevation = None
    /\ ret.elevation = None
    /\ ret.slope = None

\* a route of three in which the first point has no result and the second has
C2_WitnessRoute ==
    /\ op = "slope_from_coords_only"
    /\ Len(args.coord_list) = 3
    /\ ret.slope_list[1] = None
    /\ ret.slope_list[2] # None

\* C3: with the three elevations present and stride > 0, slope_from_coord_bearing
\* returns the origin elevation unchanged and the slope
\* (elevation_ahead - elevation_behind) / stride: the divisor is stride itself.
C3_SlopeOverStride ==
    (op = "slope_from_coord_bearing" /\ args.bearing # None /\ args.stride > 0
     /\ OriginDirect # None /\ AheadElevation # None /\ BehindElevation # None)
    => /\ ret.exc = NoExc
       /\ ret.elevation = OriginDirect
       /\ ret.slope # None
       /\ ret.slope[1].den > 0
       /\ ret.slope[1].num * args.stride =
              (AheadElevation[1] - BehindElevation[1]) * ret.slope[1].den

\* stride 250, 110 m ahead, 90 m behind: the slope is 0.08 = 2/25
C3_Witness ==
    /\ op = "slope_from_coord_bearing"
    /\ args.bearing # None
    /\ args.stride = 250
    /\ OriginDirect = Some(100)
    /\ AheadElevation = Some(110)
    /\ BehindElevation = Some(90)
    /\ ret.slope = Some([num |-> 2, den |-> 25])

\* C9 as stated: with a bearing, the origin elevation slope_from_coord_bearing
\* works with is the one get_elevation_safe resolves for the origin, so that an
\* origin without data of its own but with a spiral neighbour that has data gets
\* an elevation.
C9_OriginResolvedWithFallback ==
    (op = "slope_from_coord_bearing" /\ args.bearing # None
     /\ AheadElevation # None /\ BehindElevation # None)
    => ret.elevation = get_elevation_safe(srtm, args.lon, args.lat, DefaultGiveup).elevation

(* ------------------------- the service: C8, C10 ----------------------- *)

\* the headings of the request, None when it yields none
RequestHeadings ==
    IF args.method = "POST" THEN json_to_headings(args.json_payload).headings
    ELSE rest_to_heading(args.params).headings

\* the bearing from heading i of hs to the next one
InferredBearing(hs, i) ==
    bearing(hs[i].longitude, hs[i].latitude, hs[i + 1].longitude, hs[i + 1].latitude)

\* what slope_from_coord_bearing gives at heading i of hs with the bearing
\* inferred from headings i and i+1 and the stride of the first heading
InferredSlope(hs, i) ==
    slope_from_coord_bearing(srtm, hs[i].longitude, hs[i].latitude,
                             Some(InferredBearing(hs, i)), hs[1].stride)

\* C8 as stated, for the requests that complete: in every list of more than one
\* heading the given bearings are ignored; for each i < N-1 the slope comes from
\* the bearing inferred from positions i and i+1, and that bearing is the one
\* reported.
C8_GivenBearingsIgnored ==
    (op = "groundhog" /\ args.method = "POST" /\ Len(args.json_payload) > 1
     /\ ret.exc = NoExc) =>
        LET hs == RequestHeadings[1]
        IN  \A i \in 1..(Len(hs) - 1) :
                /\ ret.body[1][i].slope = InferredSlope(hs, i).slope
                /\ ret.body[1][i].bearing = Some(InferredBearing(hs, i))

\* C8 as amended: in a list of more than one heading whose first heading has no
\* bearing, the bearings given with later headings are ignored in computing the
\* slopes: for each i < N-1 elevation and slope come from the bearing inferred
\* from positions i and i+1, with the first heading's stride; the bearing
\* reported for index i is the inferred one only where heading i has none of its
\* own, otherwise the caller's bearing is reported as given.
C8_RouteModeInfersBearings ==
    (op = "groundhog" /\ args.method = "POST" /\ Len(args.json_payload) > 1
     /\ args.json_payload[1].bearing = None) =>
        LET hs == RequestHeadings[1]
        IN  /\ ret.exc = NoExc
            /\ Len(ret.body[1]) = Len(hs)
            /\ \A i \in 1..(Len(hs) - 1) :
                /\ ret.body[1][i].slope = InferredSlope(hs, i).slope
                /\ ret.body[1][i].elevation = InferredSlope(hs, i).elevation
                /\ ret.body[1][i].bearing =
                       IF hs[i].bearing # None THEN hs[i].bearing
                       ELSE Some(InferredBearing(hs, i))

\* a route whose second heading was given the bearing 90 but lies east of the
\* third: its slope is the one for 270, and the bearing reported is still 90
C8_Witness ==
    /\ op = "groundhog"
    /\ args.method = "POST"
    /\ Len(args.json_payload) = 3
    /\ args.json_payload[1].bearing = None
    /\ args.json_payload[2].bearing = Some(90)
    /\ ret.exc = NoExc
    /\ InferredBearing(RequestHeadings[1], 2) = 270
    /\ ret.body[1][2].slope # None
    /\ ret.body[1][2].slope # from_heading(srtm, RequestHeadings[1][2]).slope
    /\ ret.body[1][2].bearing = Some(90)

\* C10 as stated: a request with a heading that has no bearing, alone or anywhere
\* in a longer list, completes, and where that heading is handled by
\* slope_from_coord_bearing with its absent bearing (a single heading, or a list
\* processed with the given bearings) the record for it has the origin elevation
\* and slope None.
C10_AbsentBearingNeverFatal ==
    (op = "groundhog" /\ RequestHeadings # None
     /\ \E i \in 1..Len(RequestHeadings[1]) : RequestHeadings[1][i].bearing = None) =>
        LET hs == RequestHeadings[1]
        IN  /\ ret.exc = NoExc
            /\ Len(ret.body[1]) = Len(hs)
            /\ \A i \in 1..Len(hs) :
                (hs[i].bearing = None /\ (Len(hs) = 1 \/ hs[1].bearing # None)) =>
                    /\ ret.body[1][i].slope = None
                    /\ ret.body[1][i].elevation =
                           get_elevation(srtm, hs[i].latitude, hs[i].longitude)

(* ------------------- building Headings: C11, C12 ---------------------- *)

\* at most this many records in a parsed payload
MaxRecords == 2

\* d degrees in cells of null_search_size (d / 0.00028, rounded down)
Deg(d) == (d * 100000) \div 28

\* the latitudes and longitudes Headings are built with, around the bounds of
\* the normalisation
Latitudes == {-Deg(90), 0, Deg(45)}
Longitudes ==
    {-3 * Deg180, -Deg(200), -Deg180 - 1, -Deg180, 0, Deg(160), Deg180, Deg180 + 1,
     Deg(200), 3 * Deg180, 3 * Deg180 + 1, Deg(720)}

\* the strides a caller gives: none, a positive one, zero, a negative one
GivenStrides == {None, Some(2 * DEFAULT_STRIDE), Some(0), Some(-DEFAULT_STRIDE)}

\* Heading(latitude, longitude, bearing=None, stride=DEFAULT_STRIDE): the
\* constructor as a caller uses it, a stride left out being the default
new_heading(latitude, longitude, b, stride) ==
    Heading(latitude, longitude, b,
            IF stride = None THEN DEFAULT_STRIDE ELSE stride[1], None)

HeadingReturned(a, h) == Returned("Heading", a, h, <<>>)

\* a Heading is constructed
NewHeading ==
    /\ op = "idle"
    /\ \E latitude \in Latitudes, longitude \in Longitudes,
          b \in JsonBearings, stride \in GivenStrides :
        HeadingReturned([latitude |-> latitude, longitude |-> longitude,
                         bearing |-> b, stride |-> stride],
                        new_heading(latitude, longitude, b, stride))

ParsedReturned(name, a, r) ==
    Returned(name, a, [exc |-> r.exc, headings |-> r.headings], <<>>)

\* json_to_headings is called with a JSON list
CallJsonToHeadings ==
    /\ op = "idle"
    /\ \E use_geo_point \in BOOLEAN,
          items \in SeqsOf(Coords \X JsonBearings \X GivenStrides, 0, MaxRecords) :
        ParsedReturned("json_to_headings",
                       [json_coords |-> JsonPayload(items, use_geo_point)],
                       json_to_headings(JsonPayload(items, use_geo_point)))

\* rest_to_heading is called with query parameters
CallRestToHeading ==
    /\ op = "idle"
    /\ \E latitude \in {None} \cup {Some(c[2]) : c \in Coords},
          longitude \in {None} \cup {Some(c[1]) : c \in Coords},
          b \in JsonBearings, stride \in GivenStrides :
        ParsedReturned("rest_to_heading",
                       [params |-> [latitude |-> latitude, longitude |-> longitude,
                                    bearing |-> b, stride |-> stride]],
                       rest_to_heading([latitude |-> latitude, longitude |-> longitude,
                                        bearing |-> b, stride |-> stride]))

FromHeadingReturned(a, r) ==
    Returned("from_heading", a,
             [elevation |-> r.elevation, slope |-> r.slope, exc |-> r.exc], r.log)

\* from_heading is called with a Heading
CallFromHeading ==
    /\ op = "idle"
    /\ \E c \in Coords, b \in JsonBearings, stride \in GivenStrides :
        FromHeadingReturned([heading |-> new_heading(c[2], c[1], b, stride)],
                            from_heading(srtm, new_heading(c[2], c[1], b, stride)))

InitSmall ==
    /\ srtm \in {DataWithVoid(void) : void \in {{}, {<<0, 0>>}}}
    /\ op = "idle"
    /\ args = <<>>
    /\ ret = None
    /\ lookups = <<>>

NextHeading ==
    \/ Return
    \/ NewHeading
    \/ CallJsonToHeadings
    \/ CallRestToHeading
    \/ CallFromHeading

\* Headings built directly, from JSON and from query parameters
SpecHeading == InitSmall /\ [][NextHeading]_vars

\* a longitude within [-180, 180] degrees
InRange(longitude) == -Deg180 <= longitude /\ longitude <= Deg180

\* C11: constructing a Heading stores a longitude above 180 degrees reduced by
\* 360 degrees, once, and any other longitude unchanged; the stored longitude
\* lies in [-180, 180] exactly when the input lies in [-180, 540]; the latitude
\* is stored as given.
C11_LongitudeReducedOnce ==
    op = "Heading" =>
        /\ args.longitude > Deg180 => ret.longitude = args.longitude - Deg(360)
        /\ args.longitude <= Deg180 => ret.longitude = args.longitude
        /\ InRange(ret.longitude) <=>
               (-Deg180 <= args.longitude /\ args.longitude <= 3 * Deg180)
        /\ ret.latitude = args.latitude

\* 200 degrees is stored as -160 degrees
C11_Witness ==
    /\ op = "Heading"
    /\ args.longitude = Deg(200)
    /\ ret.longitude = Deg(-160)
    /\ args.latitude # 0

\* C12 as stated: every Heading built, directly, from a JSON record or from
\* query parameters, has a stride above zero, which is 250 when the caller gave
\* none; the slope division of from_heading never divides by zero.
C12_StridePositive ==
    /\ op = "Heading" =>
        /\ ret.stride > 0
        /\ args.stride = None => ret.stride = DEFAULT_STRIDE
    /\ (op = "json_to_headings" /\ ret.exc = NoExc) =>
        \A i \in 1..Len(ret.headings[1]) :
            /\ ret.headings[1][i].stride > 0
            /\ args.json_coords[i].stride = None =>
                   ret.headings[1][i].stride = DEFAULT_STRIDE
    /\ (op = "rest_to_heading" /\ ret.headings # None) =>
        /\ ret.headings[1][1].stride > 0
        /\ args.params.stride = None => ret.headings[1][1].stride = DEFAULT_STRIDE
    /\ op = "from_heading" =>
        /\ args.heading.stride > 0
        /\ ret.exc # "ZeroDivisionError"

(* ------------------------ the Earth radius: C13 ----------------------- *)

\* Angles are in thousandths (of a degree, or of a radian), radii in metres.

\* math.radians: x * pi / 180
radians(x) == Round(x * 1745, 100000)

\* the radius formula of lines 53-55 at 0, 5, ..., 90 degrees, to the metre
RadiusTable ==
    <<6378137, 6377976, 6377497, 6376716, 6375654, 6374344, 6372824, 6371141,
      6369345, 6367489, 6365631, 6363827, 6362132, 6360598, 6359272, 6358196,
      6357402, 6356916, 6356752>>

\* calc_earth_radius(latitude): the radius at a latitude given in degrees (the
\* function converts it to radians itself, line 51), for latitudes of at most 90
\* degrees either side; linear between the entries of the table
calc_earth_radius(latitude) ==
    LET k == Abs(latitude) \div 5000
        f == Abs(latitude) % 5000
    IN  IF f = 0 THEN RadiusTable[k + 1]
        ELSE RadiusTable[k + 1]
             + Round((RadiusTable[k + 2] - RadiusTable[k + 1]) * f, 5000)

\* lines 68-70 of haversine: the mean of the radii at the two latitudes
haversine_radius(lat1, lat2) ==
    (calc_earth_radius(lat1) + calc_earth_radius(lat2)) \div 2

\* lines 92 and 95 of lon_lat_from_distance_bearing: the radius roe
roe(lat) == calc_earth_radius(radians(lat))

\* the latitudes asked about: every 5 degrees from pole to pole
GeoLatitudes == {5000 * d : d \in (-18)..18}

CallCalcEarthRadius ==
    /\ op = "idle"
    /\ \E latitude \in GeoLatitudes :
        Returned("calc_earth_radius", [latitude |-> latitude],
                 calc_earth_radius(latitude), <<>>)

\* haversine is called: the radius it works with
CallHaversine ==
    /\ op = "idle"
    /\ \E lat1 \in GeoLatitudes, lat2 \in GeoLatitudes :
        Returned("haversine", [lat1 |-> lat1, lat2 |-> lat2],
                 [radius |-> haversine_radius(lat1, lat2)], <<>>)

\* lon_lat_from_distance_bearing is called: the radius it works with
CallLonLatFromDistanceBearing ==
    /\ op = "idle"
    /\ \E lat \in GeoLatitudes :
        Returned("lon_lat_from_distance_bearing", [lat |-> lat],
                 [roe |-> roe(lat)], <<>>)

NextGeodesy ==
    \/ Return
    \/ CallCalcEarthRadius
    \/ CallHaversine
    \/ CallLonLatFromDistanceBearing

\* the geodesy functions that work with the Earth radius
SpecGeodesy == InitSmall /\ [][NextGeodesy]_vars

\* C13 as stated: the radius lon_lat_from_distance_bearing works with is the
\* radius model at the origin latitude in degrees, the argument that
\* calc_earth_radius takes and that haversine passes to it.
C13_RadiusAtOriginLatitude ==
    /\ op = "lon_lat_from_distance_bearing" =>
        ret.roe = calc_earth_radius(args.lat)
    /\ op = "haversine" =>
        ret.radius = (calc_earth_radius(args.lat1) + calc_earth_radius(args.lat2)) \div 2

(* ---------------------- the response records: C14 --------------------- *)

\* the coordinates of a JSON record: its latitude and longitude fields, or its
\* geo_point
InputLatitude(record) ==
    IF record.latitude # None THEN record.latitude[1] ELSE record.geo_point[1].lat[1]

InputLongitude(record) ==
    IF record.longitude # None THEN record.longitude[1] ELSE record.geo_point[1].lon[1]

\* a longitude above 180 degrees less 360 degrees, any other as it is
Normalized(longitude) ==
    IF longitude > Deg180 THEN longitude - 2 * Deg180 ELSE longitude

C14_WitnessNormalized ==
    /\ op = "groundhog"
    /\ args.method = "POST"
    /\ Len(args.json_payload) = 1
    /\ args.json_payload[1].geo_point # None
    /\ InputLongitude(args.json_payload[1]) > Deg180
    /\ ret.exc = NoExc
    /\ ret.body[1][1].geo_point.lon = InputLongitude(args.json_payload[1]) - 2 * Deg180

(* ------------------- requests without headings: C15 ------------------- *)

\* C15 as stated: a GET without a latitude or a longitude, and a POST of the
\* empty list, complete, and the response is the empty JSON list.
C15_NoHeadingsEmptyResponse ==
    (/\ op = "groundhog"
     /\ \/ /\ args.method = "GET"
           /\ (args.params.latitude = None \/ args.params.longitude = None)
        \/ /\ args.method = "POST"
           /\ Len(args.json_payload) = 0) =>
        /\ ret.exc = NoExc
        /\ ret.body = Some(<<>>)

(* --------------------------- the client: C16 -------------------------- *)

\* at most this many rows in a table, and dateTime values 1..MaxTime
MaxRows == 3
MaxTime == 3

\* row goes into the sorted rows before the first row with a later dateTime
RECURSIVE insert_row(_, _)
insert_row(rows, row) ==
    IF rows = <<>> THEN <<row>>
    ELSE IF row.dateTime < Head(rows).dateTime THEN <<row>> \o rows
    ELSE <<Head(rows)>> \o insert_row(Tail(rows), row)

\* df.sort_values(by='dateTime', ascending=True, inplace=False): a new table,
\* the rows of df by dateTime ascending; df itself stays as it is
RECURSIVE sort_values(_)
sort_values(df) ==
    IF df = <<>> THEN <<>>
    ELSE insert_row(sort_values(SubSeq(df, 1, Len(df) - 1)), df[Len(df)])

\* df[[...]].to_dict(orient='records'): the columns sent, row by row
to_records(df, with_bearing) ==
    [i \in 1..Len(df) |->
        IF with_bearing
        THEN [longitude |-> df[i].longitude, latitude |-> df[i].latitude,
              bearing |-> df[i].bearing, unique_key |-> df[i].unique_key]
        ELSE [longitude |-> df[i].longitude, latitude |-> df[i].latitude,
              unique_key |-> df[i].unique_key]]

\* _get_payload_json(df): the sorted table that sort_values returns (line 44) is
\* dropped, and the records are taken from df; with_bearing says whether df has
\* a bearing column
get_payload_json(df, with_bearing) ==
    LET sorted == sort_values(df)
    IN  to_records(df, with_bearing)

\* the tables of the client: row i has the unique_key i, as
\* append_slope_features hands the keys out in ascending order
DataFrame(items) ==
    [i \in 1..Len(items) |->
        [dateTime |-> items[i][1], longitude |-> items[i][2][1],
         latitude |-> items[i][2][2], bearing |-> 90, unique_key |-> i]]

CallGetPayloadJson ==
    /\ op = "idle"
    /\ \E with_bearing \in BOOLEAN,
          items \in SeqsOf((1..MaxTime) \X Coords, 0, MaxRows) :
        Returned("_get_payload_json",
                 [df |-> DataFrame(items), with_bearing |-> with_bearing],
                 get_payload_json(DataFrame(items), with_bearing), <<>>)

NextClient ==
    \/ Return
    \/ CallGetPayloadJson

\* the client building its payloads
SpecClient == InitSmall /\ [][NextClient]_vars

\* C16 as stated: the records _get_payload_json returns are in ascending order
\* of the dateTime of their rows, whatever the row order of the table.
C16_PayloadSortedByDateTime ==
    op = "_get_payload_json" =>
        /\ Len(ret) = Len(args.df)
        /\ \A i, j \in 1..Len(ret) :
            i < j => args.df[ret[i].unique_key].dateTime
                         <= args.df[ret[j].unique_key].dateTime
====
